---- MODULE Spec2Model ----
(***************************************************************************)
(* Model of the MultiLang greeting utility.                                *)
(*                                                                         *)
(*   src/greet.rs          main            (the Console Greeter)           *)
(*   src/src/greet_lib.rs  ask_name_rust   (the Buffered Name Reader)      *)
(*                                                                         *)
(* An invocation is a record holding the callee's locals, the caller's     *)
(* memory behind the `name` pointer and what the invocation has sent to    *)
(* the standard streams.  `p` is the process under study: it performs up   *)
(* to MaxCalls invocations one after the other, on the same buffer, which  *)
(* keeps what the earlier invocations stored in it.  `q` is a reference    *)
(* process that performs every invocation of p as its own first            *)
(* invocation, in lock step, on the same input, capacity and stream        *)
(* outcomes.  `overflow_checks` is the build profile: with it `size - 1`   *)
(* panics on underflow, without it the subtraction wraps.                  *)
(***************************************************************************)
EXTENDS Integers, Sequences, FiniteSets, TLC

VARIABLES p, q, calls, overflow_checks

vars == <<p, q, calls, overflow_checks>>

(* ---------------------------- bounds ----------------------------------- *)
MaxLine  == 3     \* longest line content (terminator excluded)
MaxSize  == 3     \* largest declared capacity
MaxCalls == 2     \* invocations per process
UsizeBits == 16   \* modelled width of usize

(* ---------------------------- bytes ------------------------------------ *)
NUL        == "NUL"
Junk       == "?"
Newline    == "\n"
Chars      == {"a", "b", " "}
Whitespace == {" ", "\n"}

Min(a, b) == IF a < b THEN a ELSE b
Max(a, b) == IF a > b THEN a ELSE b

\* memory cells reachable through `name`; cells at offsets >= size lie
\* behind the declared end of the caller's buffer
MemLen == Max(MaxLine, MaxSize) + 1

UsizeModulus == 2 ^ UsizeBits

Take(s, n) == SubSeq(s, 1, Min(n, Len(s)))

Lines(n) == UNION {[1..k -> Chars] : k \in 0..n}

(* ----------------------- standard library ------------------------------ *)
RECURSIVE trim_start(_)
trim_start(s) ==
    IF s # <<>> /\ Head(s) \in Whitespace THEN trim_start(Tail(s)) ELSE s

RECURSIVE trim_end(_)
trim_end(s) ==
    IF s # <<>> /\ s[Len(s)] \in Whitespace
    THEN trim_end(SubSeq(s, 1, Len(s) - 1)) ELSE s

\* variant: only the line terminator and trailing whitespace are removed
trim_end_only(s) == trim_end(s)

\* str::trim
trim(s) == trim_end(trim_start(s))

\* usize subtraction in a build without overflow checks
wrapping_sub(a, b) == (a - b + UsizeModulus) % UsizeModulus

\* variant: the copy stops one byte early
copy_one_short(src, dst, count) ==
    [i \in DOMAIN dst |-> IF i < count - 1 THEN src[i + 1] ELSE dst[i]]

\* ptr::copy_nonoverlapping(src, dst, count): dst[0..count) := src[0..count)
copy_nonoverlapping(src, dst, count) ==
    [i \in DOMAIN dst |-> IF i < count THEN src[i + 1] ELSE dst[i]]

\* what Stdin::read_line can return: Ok with the bytes up to and including
\* the terminator (no terminator when the stream ends first, nothing at all
\* at end-of-stream), or Err, possibly after some bytes were appended
ReadResults ==
       {[ok |-> TRUE, line |-> l, err |-> ""] : l \in Lines(MaxLine)}
  \cup {[ok |-> TRUE, line |-> Append(l, Newline), err |-> ""] :
            l \in Lines(MaxLine)}
  \cup {[ok |-> FALSE, line |-> <<>>, err |-> "InvalidData"]}
  \cup {[ok |-> FALSE, line |-> l, err |-> "BrokenPipe"] : l \in Lines(1)}

NoResult == [ok |-> FALSE, line |-> <<>>, err |-> ""]

EndOfStream == [ok |-> TRUE, line |-> <<>>, err |-> ""]

\* variant: a read of zero bytes is taken for a failure
read_line_eof_is_error(s, r) ==
    [s EXCEPT !.input = s.input \o r.line,
              !.res   = r,
              !.reads = s.reads + 1,
              !.pc    = IF s.kind = "main"
                        THEN (IF r.ok /\ r.line # <<>>
                              THEN "m_greet" ELSE "m_eprint")
                        ELSE (IF r.ok /\ r.line # <<>>
                              THEN "trim" ELSE "eprint")]

\* read_line appends to the string it is given and reports the outcome
read_line(s, r) ==
    [s EXCEPT !.input = s.input \o r.line,
              !.res   = r,
              !.reads = s.reads + 1,
              !.pc    = IF s.kind = "main"
                        THEN (IF r.ok THEN "m_greet" ELSE "m_eprint")
                        ELSE (IF r.ok THEN "trim" ELSE "eprint")]

(* --------------------------- invocations ------------------------------- *)
Fresh ==
    [pc            |-> "idle",
     kind          |-> "none",
     size          |-> 0,
     name          |-> [i \in 0..(MemLen - 1) |-> Junk],
     name0         |-> [i \in 0..(MemLen - 1) |-> Junk],
     written       |-> {},
     input         |-> <<>>,
     trimmed       |-> <<>>,
     bytes_to_copy |-> 0,
     res           |-> NoResult,
     stdout        |-> <<>>,
     stderr        |-> <<>>,
     flushed       |-> FALSE,
     reads         |-> 0,
     ret           |-> <<>>]

\* entry into either function: the streams of this invocation are empty,
\* the buffer is as the caller left it, the locals are not yet bound
enter(s, kind, size) ==
    [s EXCEPT !.pc      = IF kind = "main" THEN "m_print" ELSE "print",
              !.kind    = kind,
              !.size    = size,
              !.name0   = s.name,
              !.written = {},
              !.res     = NoResult,
              !.stdout  = <<>>,
              !.stderr  = <<>>,
              !.flushed = FALSE,
              !.reads   = 0,
              !.ret     = <<>>]

\* return: the locals go out of scope; the buffer, the streams and the
\* outcome of the read stay observable
leave(s) ==
    [s EXCEPT !.pc = "returned",
              !.input = <<>>,
              !.trimmed = <<>>,
              !.bytes_to_copy = 0]

(* ------------------ ask_name_rust, src/src/greet_lib.rs ---------------- *)
PromptRust == <<"Enter your name (Rust version): ">>

\* line 8
print_prompt(s) ==
    [s EXCEPT !.stdout = Append(s.stdout, PromptRust), !.pc = "flush"]

\* line 9: flush().unwrap()
flush(s, ok) ==
    IF ok THEN [s EXCEPT !.flushed = TRUE, !.pc = "new"]
          ELSE [s EXCEPT !.pc = "aborted"]

\* line 11
new_input(s) == [s EXCEPT !.input = <<>>, !.pc = "read"]

\* variant: the room for the terminator is forgotten
size_minus_one_forgotten(size) == size

\* line 15, right operand of min
size_minus_one(size) == wrapping_sub(size, 1)

\* variant: the length is not bounded by the capacity
bytes_to_copy_unbounded(len, size) == len

\* line 15
bytes_to_copy(len, size) == Min(len, size_minus_one(size))

\* lines 14-15; `size - 1` panics in a build with overflow checks
trim_and_measure(s, checks) ==
    IF checks /\ s.size < 1
    THEN [s EXCEPT !.trimmed = trim(s.input), !.pc = "aborted"]
    ELSE [s EXCEPT !.trimmed = trim(s.input),
                   !.bytes_to_copy = bytes_to_copy(Len(trim(s.input)), s.size),
                   !.pc = "copy"]

\* lines 18-22
copy(s) ==
    [s EXCEPT !.name    = copy_nonoverlapping(s.trimmed, s.name,
                                              s.bytes_to_copy),
              !.written = s.written \cup 0..(s.bytes_to_copy - 1),
              !.pc      = "terminate"]

\* variant: no terminator is written
terminate_skipped(s) == [s EXCEPT !.pc = "greet"]

\* line 23
terminate(s) ==
    [s EXCEPT !.name    = [i \in DOMAIN s.name |->
                              IF i = s.bytes_to_copy THEN NUL ELSE s.name[i]],
              !.written = s.written \cup {s.bytes_to_copy},
              !.pc      = "greet"]

GreetingRust(n) == <<"Hello from Rust, ">> \o n \o <<"!">>

\* line 26
greet(s) ==
    leave([s EXCEPT !.stdout = Append(s.stdout, GreetingRust(s.trimmed))])

Diagnostic(e) == <<"Error reading input: ", e>>

\* variant: the read is tried again after an error
eprint_and_retry(s) ==
    [s EXCEPT !.stderr = Append(s.stderr, Diagnostic(s.res.err)),
              !.pc = "read"]

\* line 29
eprint(s) ==
    [s EXCEPT !.stderr = Append(s.stderr, Diagnostic(s.res.err)),
              !.pc = "err_store"]

\* variant: the whole buffer is cleared on an error
err_store_clears_buffer(s) ==
    leave([s EXCEPT !.name    = [i \in DOMAIN s.name |->
                                    IF i < s.size THEN NUL ELSE s.name[i]],
                    !.written = s.written \cup 0..(s.size - 1)])

\* variant: the buffer is left alone on an error
err_store_skipped(s) == leave(s)

\* line 31
err_store(s) ==
    leave([s EXCEPT !.name    = [i \in DOMAIN s.name |->
                                    IF i = 0 THEN NUL ELSE s.name[i]],
                    !.written = s.written \cup {0}])

(* ------------------------- main, src/greet.rs -------------------------- *)
PromptMain == <<"Enter your name: ">>

\* line 9
m_print(s) ==
    [s EXCEPT !.stdout = Append(s.stdout, PromptMain), !.pc = "m_new"]

\* line 11
m_new(s) == [s EXCEPT !.input = <<>>, !.pc = "m_read"]

GreetingMain(n) == <<"Hello ">> \o n \o <<" from Rust!">>

\* lines 14-15
m_greet(s) ==
    leave([s EXCEPT !.stdout = Append(s.stdout, GreetingMain(trim(s.input))),
                    !.ret = <<"Ok">>])

\* lines 18-19
m_eprint(s) ==
    leave([s EXCEPT !.stderr = Append(s.stderr, Diagnostic(s.res.err)),
                    !.ret = <<"Err", s.res.err>>])

\* exit status the runtime derives from main's result
ExitStatus(ret) == IF ret = <<"Ok">> THEN 0 ELSE 1

(* ----------------------------- actions --------------------------------- *)
Init ==
    /\ p = Fresh
    /\ q = Fresh
    /\ calls = 0
    /\ overflow_checks \in BOOLEAN

At(l) == p.pc = l

CallAskName ==
    /\ p.pc \in {"idle", "returned"}
    /\ calls < MaxCalls
    /\ \E size \in 0..MaxSize :
          /\ p' = enter(p, "ask_name_rust", size)
          /\ q' = enter(Fresh, "ask_name_rust", size)
    /\ calls' = calls + 1
    /\ UNCHANGED overflow_checks

CallMain ==
    /\ p.pc \in {"idle", "returned"}
    /\ calls < MaxCalls
    /\ p' = enter(p, "main", 0)
    /\ q' = enter(Fresh, "main", 0)
    /\ calls' = calls + 1
    /\ UNCHANGED overflow_checks

PrintPrompt ==
    /\ At("print")
    /\ p' = print_prompt(p)
    /\ q' = print_prompt(q)
    /\ UNCHANGED <<calls, overflow_checks>>

Flush ==
    /\ At("flush")
    /\ \E ok \in BOOLEAN : p' = flush(p, ok) /\ q' = flush(q, ok)
    /\ UNCHANGED <<calls, overflow_checks>>

NewInput ==
    /\ At("new")
    /\ p' = new_input(p)
    /\ q' = new_input(q)
    /\ UNCHANGED <<calls, overflow_checks>>

ReadLine ==
    /\ At("read")
    /\ \E r \in ReadResults : p' = read_line(p, r) /\ q' = read_line(q, r)
    /\ UNCHANGED <<calls, overflow_checks>>

TrimAndMeasure ==
    /\ At("trim")
    /\ p' = trim_and_measure(p, overflow_checks)
    /\ q' = trim_and_measure(q, overflow_checks)
    /\ UNCHANGED <<calls, overflow_checks>>

Copy ==
    /\ At("copy")
    /\ p' = copy(p)
    /\ q' = copy(q)
    /\ UNCHANGED <<calls, overflow_checks>>

Terminate ==
    /\ At("terminate")
    /\ p' = terminate(p)
    /\ q' = terminate(q)
    /\ UNCHANGED <<calls, overflow_checks>>

Greet ==
    /\ At("greet")
    /\ p' = greet(p)
    /\ q' = greet(q)
    /\ UNCHANGED <<calls, overflow_checks>>

Eprint ==
    /\ At("eprint")
    /\ p' = eprint(p)
    /\ q' = eprint(q)
    /\ UNCHANGED <<calls, overflow_checks>>

ErrStore ==
    /\ At("err_store")
    /\ p' = err_store(p)
    /\ q' = err_store(q)
    /\ UNCHANGED <<calls, overflow_checks>>

MainPrint ==
    /\ At("m_print")
    /\ p' = m_print(p)
    /\ q' = m_print(q)
    /\ UNCHANGED <<calls, overflow_checks>>

MainNew ==
    /\ At("m_new")
    /\ p' = m_new(p)
    /\ q' = m_new(q)
    /\ UNCHANGED <<calls, overflow_checks>>

MainRead ==
    /\ At("m_read")
    /\ \E r \in ReadResults : p' = read_line(p, r) /\ q' = read_line(q, r)
    /\ UNCHANGED <<calls, overflow_checks>>

MainGreet ==
    /\ At("m_greet")
    /\ p' = m_greet(p)
    /\ q' = m_greet(q)
    /\ UNCHANGED <<calls, overflow_checks>>

MainEprint ==
    /\ At("m_eprint")
    /\ p' = m_eprint(p)
    /\ q' = m_eprint(q)
    /\ UNCHANGED <<calls, overflow_checks>>

Next ==
    \/ CallAskName
    \/ CallMain
    \/ PrintPrompt
    \/ Flush
    \/ NewInput
    \/ ReadLine
    \/ TrimAndMeasure
    \/ Copy
    \/ Terminate
    \/ Greet
    \/ Eprint
    \/ ErrStore
    \/ MainPrint
    \/ MainNew
    \/ MainRead
    \/ MainGreet
    \/ MainEprint

Spec == Init /\ [][Next]_vars

(* ------------------------ reading the results -------------------------- *)
\* the C string a foreign caller finds behind `name`
RECURSIVE CStrFrom(_, _)
CStrFrom(mem, i) ==
    IF i \notin DOMAIN mem \/ mem[i] = NUL
    THEN <<>>
    ELSE <<mem[i]>> \o CStrFrom(mem, i + 1)

CStr(mem) == CStrFrom(mem, 0)

\* the trimmed name, stated from the line itself: what lies between its
\* first and its last byte that is not whitespace
NonWs(l) == {i \in 1..Len(l) : l[i] \notin Whitespace}

TrimmedName(l) ==
    IF NonWs(l) = {} THEN <<>>
    ELSE SubSeq(l, CHOOSE i \in NonWs(l) : \A j \in NonWs(l) : i <= j,
                   CHOOSE i \in NonWs(l) : \A j \in NonWs(l) : i >= j)

InAskName == p.kind = "ask_name_rust"
InMain    == p.kind = "main"
Returned  == p.pc = "returned"
ReadOk    == p.res.ok
ReadErr   == ~p.res.ok /\ p.res.err # ""
AtEof     == p.res = EndOfStream

\* buffer[0..k) holds the first k bytes of t and buffer[k] the null byte
HoldsPrefix(mem, t, k) ==
    /\ k <= Len(t)
    /\ k \in DOMAIN mem
    /\ \A i \in 0..(k - 1) : mem[i] = t[i + 1]
    /\ mem[k] = NUL

(* ------------------------------ C1 ------------------------------------- *)
\* C1: with capacity >= 1, whatever the read returns, every byte
\* ask_name_rust writes lies at an offset in 0..capacity-1, so at most
\* capacity bytes are written, terminator included.
C1_WritesWithinCapacity ==
    (InAskName /\ p.size >= 1) =>
        /\ p.written \subseteq 0..(p.size - 1)
        /\ Cardinality(p.written) <= p.size
        /\ \A i \in DOMAIN p.name : i >= p.size => p.name[i] = p.name0[i]

\* a name longer than the buffer was stored and the last cell was written
C1_Witness ==
    /\ InAskName /\ Returned /\ ReadOk
    /\ p.size >= 2
    /\ Len(TrimmedName(p.res.line)) > p.size - 1
    /\ p.written = 0..(p.size - 1)

(* ------------------------------ C2 ------------------------------------- *)
\* C2: after a successful read with capacity >= 1 and
\* k = min(length of the trimmed name, capacity - 1), buffer[0..k) is the
\* first k bytes of the trimmed name and buffer[k] is the null byte; with
\* capacity 1 only the null byte at offset 0 is written.
C2_CopiesPrefixAndTerminates ==
    (InAskName /\ Returned /\ ReadOk /\ p.size >= 1) =>
        LET t == TrimmedName(p.res.line)
            k == Min(Len(t), p.size - 1)
        IN  /\ HoldsPrefix(p.name, t, k)
            /\ p.written = 0..k
            /\ p.size = 1 => (p.name[0] = NUL /\ p.written = {0})

\* a line with surrounding whitespace whose name fits and has two bytes
C2_Witness ==
    /\ InAskName /\ Returned /\ ReadOk
    /\ p.size = 3
    /\ Len(TrimmedName(p.res.line)) = 2
    /\ p.res.line # TrimmedName(p.res.line)
    /\ p.name[0] # p.name[1]

(* ------------------------------ C3 ------------------------------------- *)
\* C3 as stated: for every line read whose length L satisfies
\* L >= capacity - 1 the buffer holds the first capacity-1 bytes of the
\* trimmed line and the null byte at offset capacity - 1.
C3_TruncatesByLineLength ==
    (InAskName /\ Returned /\ ReadOk /\ p.size >= 1
       /\ Len(p.res.line) >= p.size - 1) =>
        HoldsPrefix(p.name, TrimmedName(p.res.line), p.size - 1)

\* C3 amended: the same, for every line whose TRIMMED length is at least
\* capacity - 1.
C3_TruncatesByTrimmedLength ==
    (InAskName /\ Returned /\ ReadOk /\ p.size >= 1
       /\ Len(TrimmedName(p.res.line)) >= p.size - 1) =>
        /\ HoldsPrefix(p.name, TrimmedName(p.res.line), p.size - 1)
        /\ CStr(p.name) = Take(TrimmedName(p.res.line), p.size - 1)
        /\ Len(p.stdout) = 2

\* a name that does not fit was cut, not refused
C3_Witness ==
    /\ InAskName /\ Returned /\ ReadOk
    /\ p.size = 2
    /\ Len(TrimmedName(p.res.line)) = 3
    /\ Len(CStr(p.name)) = 1

(* ------------------------------ C4 ------------------------------------- *)
\* C4: a call with capacity 0 is rejected: no byte is written on any path
\* and capacity - 1 does not become a copy length above the capacity.
C4_ZeroCapacityRejected ==
    (InAskName /\ p.size = 0) =>
        /\ p.written = {}
        /\ p.bytes_to_copy <= p.size

C7_ErrorStoresEmptyString ==
    (InAskName /\ Returned /\ ReadErr /\ p.size >= 1) =>
        /\ p.stderr = <<<<"Error reading input: ", p.res.err>>>>
        /\ p.name[0] = NUL
        /\ \A i \in DOMAIN p.name : i >= 1 => p.name[i] = p.name0[i]
        /\ p.written = {0}
        /\ p.stdout = <<PromptRust>>

\* an error on a buffer that holds an earlier two-byte name
C7_Witness ==
    /\ InAskName /\ Returned /\ ReadErr /\ p.size >= 1
    /\ p.name0[0] \in Chars /\ p.name0[1] \in Chars
    /\ p.name[1] = p.name0[1]

(* ------------------------------ C8 ------------------------------------- *)
\* C8: main's result is decided by its single read: on success it prints
\* "Hello {trimmed_name} from Rust!" and returns Ok(()); on an error it
\* writes a diagnostic containing the error, prints no greeting and
\* returns Err with that same error.
C8_MainResultFollowsRead ==
    (InMain /\ Returned) =>
        /\ p.reads = 1
        /\ ReadOk =>
              /\ p.stdout = <<PromptMain,
                    <<"Hello ">> \o TrimmedName(p.res.line)
                                 \o <<" from Rust!">> >>
              /\ p.stderr = <<>>
              /\ p.ret = <<"Ok">>
              /\ ExitStatus(p.ret) = 0
        /\ ~ReadOk =>
              /\ p.stdout = <<PromptMain>>
              /\ p.stderr = <<<<"Error reading input: ", p.res.err>>>>
              /\ p.ret = <<"Err", p.res.err>>
              /\ ExitStatus(p.ret) # 0

\* a greeting for a name that had whitespace on both sides
C8_Witness ==
    /\ InMain /\ Returned /\ ReadOk
    /\ Len(p.res.line) = 4
    /\ Len(TrimmedName(p.res.line)) = 1
    /\ Head(p.res.line) = " "

(* ------------------------------ C9 ------------------------------------- *)
Prompted == Len(p.stdout) >= 1 /\ p.stdout[1] = PromptRust
Emitted  == Len(p.stdout) >= 2 \/ p.stderr # <<>>

\* C9: in ask_name_rust the prompt is written, then standard output is
\* flushed, then standard input is read, and only after that read is the
\* buffer written and the greeting or diagnostic emitted; the read happens
\* at most once in any invocation and exactly once in one that returns.
C9_PromptFlushReadThenStore ==
    InAskName =>
        /\ p.flushed => Prompted
        /\ p.reads >= 1 => (p.flushed /\ Prompted)
        /\ (p.written # {} \/ Emitted) => p.reads = 1
        /\ p.reads <= 1
        /\ Returned => (p.reads = 1 /\ Emitted /\ p.written # {})

\* a return through the error arm in the second invocation
C9_Witness ==
    /\ InAskName /\ Returned /\ ReadErr
    /\ calls = 2 /\ p.reads = 1 /\ p.flushed

(* ------------------------------ C10 ------------------------------------ *)
\* what a caller can observe of a finished invocation: the string in the
\* buffer it passed (ask_name_rust only), the two streams and the result
Observable(s) ==
    <<IF s.kind = "ask_name_rust" THEN CStr(s.name) ELSE <<>>,
      s.stdout, s.stderr, s.ret>>

\* C10: the observable result of a second or later invocation (for
\* ask_name_rust with capacity >= 1) equals that of a first invocation of
\* a fresh process on the same input and capacity, whatever the earlier
\* invocations read and returned.
C10_NoStateLeaksBetweenCalls ==
    (Returned /\ calls >= 2 /\ (InAskName => p.size >= 1)) =>
        /\ q.pc = "returned"
        /\ Observable(p) = Observable(q)

\* the second invocation fails on a buffer still holding the first name
C10_Witness ==
    /\ InAskName /\ Returned /\ calls = 2 /\ ReadErr /\ p.size >= 1
    /\ Len(CStr(p.name0)) = 2
    /\ p.name0 # q.name0

====
